---------------------------- MODULE Spec2Model ----------------------------
(***************************************************************************)
(* Model of the speech analyzer scripts src/code/app.py and                *)
(* "src/code/sentiment analysis.py".                                       *)
(*                                                                         *)
(* Texts are sequences of one-character strings, so that str.lower(),      *)
(* str.strip() and the substring test `x in t` are computed character by   *)
(* character as Python computes them.                                      *)
(*                                                                         *)
(* Two specifications:                                                     *)
(*   Spec    one script run after another (Streamlit re-executes the       *)
(*           script top to bottom on every interaction);                   *)
(*   SpecFn  the pure functions detect_intent (both scripts) and           *)
(*           ai_sales_response called on inputs drawn from bounded sets.   *)
(***************************************************************************)
EXTENDS Naturals, Sequences, FiniteSets

VARIABLES
    \* ---- state of a script run (module level of the two scripts) ----
    script,           \* which of the two scripts this process runs
    pc,               \* position of the run in the script
    input_choice,     \* app.py: value of the st.radio widget
    wav_path,         \* path of the audio file of this run, or "None"
    text,             \* the stripped transcript
    sentiment_label,  \* sent["label"]
    intent,           \* result of detect_intent(text)
    entities,         \* list built from doc.ents
    ai,               \* result of ai_sales_response(intent, sentiment_label)
    calls,            \* stages executed in this run, in order
    \* ---- one call of a pure function (SpecFn) ----
    fn,               \* the function called, or "none"
    arg_text,         \* detect_intent: text
    arg_intent,       \* ai_sales_response: intent
    arg_sentiment,    \* ai_sales_response: sentiment
    ret_intent,       \* value returned by detect_intent
    ret_ai            \* value returned by ai_sales_response

runVars == <<script, pc, input_choice, wav_path, text, sentiment_label,
             intent, entities, ai, calls>>
fnVars == <<fn, arg_text, arg_intent, arg_sentiment, ret_intent, ret_ai>>
vars == <<runVars, fnVars>>

---------------------------------------------------------------------------
(* Bounds and input domains *)

\* A transcript is the concatenation of at most MaxWords fragments.
MaxWords == 2

\* The fragments transcripts are built from: every keyword of every rule,
\* upper-case spellings, fragments that only form a keyword when joined
\* ("de" + "al"), text without any keyword, and white space.
Vocabulary ==
    { <<"b","u","y">>,
      <<"p","u","r","c","h","a","s","e">>,
      <<"i","n","t","e","r","e","s","t","e","d">>,
      <<"g","e","t"," ","a"," ","n","e","w">>,
      <<"p","r","i","c","e">>,
      <<"c","o","s","t">>,
      <<"h","o","w"," ","m","u","c","h">>,
      <<"e","x","p","e","n","s","i","v","e">>,
      <<"n","o","t"," ","w","o","r","k","i","n","g">>,
      <<"i","s","s","u","e">>,
      <<"p","r","o","b","l","e","m">>,
      <<"c","o","m","p","l","a","i","n","t">>,
      <<"c","o","m","p","a","r","e">>,
      <<"s","p","e","c","s">>,
      <<"c","a","m","e","r","a">>,
      <<"b","a","t","t","e","r","y">>,
      <<"o","f","f","e","r">>,
      <<"d","i","s","c","o","u","n","t">>,
      <<"d","e","a","l">>,
      <<"B","U","Y">>,
      <<"P","r","i","c","e">>,
      <<"t","h","e"," ","w","e","a","t","h","e","r">>,
      <<"p","h","o","n","e">>,
      <<"d","e">>,
      <<"a","l">>,
      <<" ">> }

RECURSIVE TextsOfLen(_)
TextsOfLen(n) ==
    IF n = 0 THEN { <<>> }
    ELSE { w \o t : w \in Vocabulary, t \in TextsOfLen(n - 1) }

\* The texts the transcription may return and detect_intent is called on.
Texts == UNION { TextsOfLen(n) : n \in 0..MaxWords }

\* Labels the sentiment model returns ("sentiment-analysis" pipeline).
SentimentLabels == { "POSITIVE", "NEGATIVE" }

\* Sentiment arguments ai_sales_response is called with directly.
SentimentArgs == SentimentLabels \cup { "NEUTRAL", "negative", "Negative", "" }

\* Intent arguments ai_sales_response is called with directly: the labels
\* the two scripts return, and strings that are no label of either.
IntentArgs ==
    { "Purchase Interest", "Ask for Price", "Complaint", "Product Comparison",
      "Ask for Offers", "General",
      "Ask for price", "Compare Product", "Ask for offers",
      "complaint", "" }

---------------------------------------------------------------------------
(* str methods and operators used by the scripts *)

LowerOf ==
    [ A |-> "a", B |-> "b", C |-> "c", D |-> "d", E |-> "e", F |-> "f",
      G |-> "g", H |-> "h", I |-> "i", J |-> "j", K |-> "k", L |-> "l",
      M |-> "m", N |-> "n", O |-> "o", P |-> "p", Q |-> "q", R |-> "r",
      S |-> "s", T |-> "t", U |-> "u", V |-> "v", W |-> "w", X |-> "x",
      Y |-> "y", Z |-> "z" ]

\* str.lower(): every cased character replaced by its lower-case form.
lower(s) ==
    [ i \in 1..Len(s) |-> IF s[i] \in DOMAIN LowerOf THEN LowerOf[s[i]] ELSE s[i] ]

Whitespace == { " ", "\t", "\n", "\r" }

\* str.strip(): leading and trailing white space removed.
strip(s) ==
    LET inner == { i \in 1..Len(s) : s[i] \notin Whitespace }
    IN  IF inner = {} THEN <<>>
        ELSE LET first == CHOOSE i \in inner : \A j \in inner : i <= j
                 last  == CHOOSE i \in inner : \A j \in inner : j <= i
             IN  SubSeq(s, first, last)

\* Python's `x in t` for two strings: x occurs in t as a substring.
Contains(x, t) ==
    \E i \in 0..(Len(t) - Len(x)) : SubSeq(t, i + 1, i + Len(x)) = x

\* any(x in t for x in keywords)
AnyIn(keywords, t) ==
    \E k \in 1..Len(keywords) : Contains(keywords[k], t)

\* dict.get(key, default)
Get(d, key, default) ==
    IF key \in DOMAIN d THEN d[key] ELSE default

---------------------------------------------------------------------------
(* detect_intent *)

PurchaseKeywords ==
    << <<"b","u","y">>,
       <<"p","u","r","c","h","a","s","e">>,
       <<"i","n","t","e","r","e","s","t","e","d">>,
       <<"g","e","t"," ","a"," ","n","e","w">> >>

PriceKeywords ==
    << <<"p","r","i","c","e">>,
       <<"c","o","s","t">>,
       <<"h","o","w"," ","m","u","c","h">>,
       <<"e","x","p","e","n","s","i","v","e">> >>

ComplaintKeywords ==
    << <<"n","o","t"," ","w","o","r","k","i","n","g">>,
       <<"i","s","s","u","e">>,
       <<"p","r","o","b","l","e","m">>,
       <<"c","o","m","p","l","a","i","n","t">> >>

ComparisonKeywords ==
    << <<"c","o","m","p","a","r","e">>,
       <<"s","p","e","c","s">>,
       <<"c","a","m","e","r","a">>,
       <<"b","a","t","t","e","r","y">> >>

OfferKeywords ==
    << <<"o","f","f","e","r">>,
       <<"d","i","s","c","o","u","n","t">>,
       <<"d","e","a","l">> >>

\* Faulty variant: the price rule is tested before the purchase rule.
detect_intent_price_first(s) ==
    LET t == lower(s)
    IN  IF AnyIn(PriceKeywords, t) THEN "Ask for Price"
        ELSE IF AnyIn(PurchaseKeywords, t) THEN "Purchase Interest"
        ELSE IF AnyIn(ComplaintKeywords, t) THEN "Complaint"
        ELSE IF AnyIn(ComparisonKeywords, t) THEN "Product Comparison"
        ELSE IF AnyIn(OfferKeywords, t) THEN "Ask for Offers"
        ELSE "General"

\* Faulty variant: one label is spelled as in the other script.
detect_intent_other_label(s) ==
    LET t == lower(s)
    IN  IF AnyIn(PurchaseKeywords, t) THEN "Purchase Interest"
        ELSE IF AnyIn(PriceKeywords, t) THEN "Ask for Price"
        ELSE IF AnyIn(ComplaintKeywords, t) THEN "Complaint"
        ELSE IF AnyIn(ComparisonKeywords, t) THEN "Compare Product"
        ELSE IF AnyIn(OfferKeywords, t) THEN "Ask for Offers"
        ELSE "General"

\* Faulty variant: the last rule is missing.
detect_intent_no_offers(s) ==
    LET t == lower(s)
    IN  IF AnyIn(PurchaseKeywords, t) THEN "Purchase Interest"
        ELSE IF AnyIn(PriceKeywords, t) THEN "Ask for Price"
        ELSE IF AnyIn(ComplaintKeywords, t) THEN "Complaint"
        ELSE IF AnyIn(ComparisonKeywords, t) THEN "Product Comparison"
        ELSE "General"

\* Faulty variant: the keywords are tested against the text as given.
detect_intent_no_lower(s) ==
    LET t == s
    IN  IF AnyIn(PurchaseKeywords, t) THEN "Purchase Interest"
        ELSE IF AnyIn(PriceKeywords, t) THEN "Ask for Price"
        ELSE IF AnyIn(ComplaintKeywords, t) THEN "Complaint"
        ELSE IF AnyIn(ComparisonKeywords, t) THEN "Product Comparison"
        ELSE IF AnyIn(OfferKeywords, t) THEN "Ask for Offers"
        ELSE "General"

\* app.py, detect_intent(text)
detect_intent(s) ==
    LET t == lower(s)
    IN  IF AnyIn(PurchaseKeywords, t) THEN "Purchase Interest"
        ELSE IF AnyIn(PriceKeywords, t) THEN "Ask for Price"
        ELSE IF AnyIn(ComplaintKeywords, t) THEN "Complaint"
        ELSE IF AnyIn(ComparisonKeywords, t) THEN "Product Comparison"
        ELSE IF AnyIn(OfferKeywords, t) THEN "Ask for Offers"
        ELSE "General"

\* sentiment analysis.py, detect_intent(text): the same keyword lists in the
\* same order, with its own spelling of three labels.
detect_intent_sa(s) ==
    LET t == lower(s)
    IN  IF AnyIn(PurchaseKeywords, t) THEN "Purchase Interest"
        ELSE IF AnyIn(PriceKeywords, t) THEN "Ask for price"
        ELSE IF AnyIn(ComplaintKeywords, t) THEN "Complaint"
        ELSE IF AnyIn(ComparisonKeywords, t) THEN "Compare Product"
        ELSE IF AnyIn(OfferKeywords, t) THEN "Ask for offers"
        ELSE "General"

---------------------------------------------------------------------------
(* ai_sales_response *)

\* The returned dicts.  The source spells "I'll" with U+2019 and the dash
\* of NegativeTriple with U+2014; both are written in ASCII here.
PurchaseTriple ==
    [ next_question  |-> "Would you like to know the available models or pricing?",
      soft_handling  |-> "Great! Let me help you choose the best option.",
      recommendation |-> "Our latest model offers excellent value for buyers." ]

PriceTriple ==
    [ next_question  |-> "Do you have any budget range in mind?",
      soft_handling  |-> "I'll help you find the best model in your range.",
      recommendation |-> "We have offers and EMI options you might like." ]

ComplaintTriple ==
    [ next_question  |-> "Could you explain the issue you're facing?",
      soft_handling  |-> "I truly apologize for the inconvenience.",
      recommendation |-> "We can quickly guide you through a solution." ]

NegativeTriple ==
    [ next_question  |-> "What would you like us to improve?",
      soft_handling  |-> "I understand your concern -- I'm here to help.",
      recommendation |-> "We can offer alternatives that better fit your needs." ]

DefaultTriple ==
    [ next_question  |-> "How can I assist you further?",
      soft_handling  |-> "I'm right here to help.",
      recommendation |-> "Let me know your preference and I'll recommend the best option." ]

\* A name that is not bound yet, or the None a function returns when it
\* falls off its end.
None == [ none |-> TRUE ]

\* Faulty variant: the sentiment is tested before the intent.
ai_sales_response_sentiment_first(i, s) ==
    IF s = "NEGATIVE" THEN NegativeTriple
    ELSE IF i = "Purchase Interest" THEN PurchaseTriple
    ELSE IF i = "Ask for Price" THEN PriceTriple
    ELSE IF i = "Complaint" THEN ComplaintTriple
    ELSE DefaultTriple

\* Faulty variant: the sentiment label is compared without regard to case.
ai_sales_response_any_case(i, s) ==
    IF i = "Purchase Interest" THEN PurchaseTriple
    ELSE IF i = "Ask for Price" THEN PriceTriple
    ELSE IF i = "Complaint" THEN ComplaintTriple
    ELSE IF s \in { "NEGATIVE", "Negative", "negative" } THEN NegativeTriple
    ELSE DefaultTriple

\* Faulty variant: the final return is missing, the function falls off its end.
ai_sales_response_no_default(i, s) ==
    IF i = "Purchase Interest" THEN PurchaseTriple
    ELSE IF i = "Ask for Price" THEN PriceTriple
    ELSE IF i = "Complaint" THEN ComplaintTriple
    ELSE IF s = "NEGATIVE" THEN NegativeTriple
    ELSE None

\* app.py, ai_sales_response(intent, sentiment)
ai_sales_response(i, s) ==
    IF i = "Purchase Interest" THEN PurchaseTriple
    ELSE IF i = "Ask for Price" THEN PriceTriple
    ELSE IF i = "Complaint" THEN ComplaintTriple
    ELSE IF s = "NEGATIVE" THEN NegativeTriple
    ELSE DefaultTriple

---------------------------------------------------------------------------
(* The collaborators: what the external models may return *)

\* whisper_model.transcribe(...): a dict, normally with the key "text".
WhisperResults ==
    { [ text |-> t ] : t \in Texts } \cup { [ language |-> "en" ] }

\* ner_model(text).ents: no entity, or one span of the text.  An empty text
\* has no span.
DocEnts(t) ==
    { <<>> } \cup
    (IF t # <<>> THEN { << [ text |-> t, label_ |-> "ORG" ] >> } ELSE {})

\* [{"text": ent.text, "label": ent.label_} for ent in doc.ents]
EntityList(ents) ==
    [ k \in 1..Len(ents) |-> [ text |-> ents[k].text, label |-> ents[k].label_ ] ]

Scripts == { "app.py", "sentiment analysis.py" }

InputChoices == { "Record Live", "Upload Audio File" }

\* One executed stage of a run: its argument and whether it returned.
Stage(name, arg, ok) == [ stage |-> name, arg |-> arg, ok |-> ok ]

---------------------------------------------------------------------------
(* A script run *)

RunInit ==
    /\ script \in Scripts
    /\ pc = "start"
    /\ input_choice = "Record Live"
    /\ wav_path = "None"
    /\ text = None
    /\ sentiment_label = None
    /\ intent = None
    /\ entities = None
    /\ ai = None
    /\ calls = <<>>

FnInit ==
    /\ fn = "none"
    /\ arg_text = None
    /\ arg_intent = None
    /\ arg_sentiment = None
    /\ ret_intent = None
    /\ ret_ai = None

Init == RunInit /\ FnInit

\* The run produces no audio path: the record button is not pressed, or no
\* file is uploaded.  `if wav_path:` is false and the script ends.
NoAudio ==
    /\ pc = "start"
    /\ \E choice \in InputChoices :
          /\ script = "sentiment analysis.py" => choice = "Record Live"
          /\ input_choice' = choice
    /\ pc' = "done"
    /\ UNCHANGED <<script, wav_path, text, sentiment_label, intent, entities,
                   ai, calls>>
    /\ UNCHANGED fnVars

\* record_audio(...) returns the path of the recording, or the uploaded file
\* is written to a temporary file.
AudioSource ==
    /\ pc = "start"
    /\ \E choice \in InputChoices :
          /\ script = "sentiment analysis.py" => choice = "Record Live"
          /\ input_choice' = choice
          /\ calls' = Append(calls, Stage("audio source", choice, TRUE))
    /\ wav_path' = "tmp.wav"
    /\ pc' = "transcription"
    /\ UNCHANGED <<script, text, sentiment_label, intent, entities, ai>>
    /\ UNCHANGED fnVars

\* Recording or writing the temporary file raises: the run ends.
AudioSourceFails ==
    /\ pc = "start"
    /\ \E choice \in InputChoices :
          /\ script = "sentiment analysis.py" => choice = "Record Live"
          /\ input_choice' = choice
          /\ calls' = Append(calls, Stage("audio source", choice, FALSE))
    /\ pc' = "failed"
    /\ UNCHANGED <<script, wav_path, text, sentiment_label, intent, entities, ai>>
    /\ UNCHANGED fnVars

\* result = whisper_model.transcribe(wav_path, language="en")
\* text = result.get("text", "").strip()
Transcribe ==
    /\ pc = "transcription"
    /\ \E result \in WhisperResults :
          text' = strip(Get(result, "text", <<>>))
    /\ calls' = Append(calls, Stage("transcription", wav_path, TRUE))
    /\ pc' = "sentiment"
    /\ UNCHANGED <<script, input_choice, wav_path, sentiment_label, intent,
                   entities, ai>>
    /\ UNCHANGED fnVars

\* Faulty variant: a failed transcription is swallowed and the run goes on with an
\* empty transcript.
Transcribe_swallow ==
    /\ pc = "transcription"
    /\ text' = <<>>
    /\ calls' = Append(calls, Stage("transcription", wav_path, FALSE))
    /\ pc' = "sentiment"
    /\ UNCHANGED <<script, input_choice, wav_path, sentiment_label, intent,
                   entities, ai>>
    /\ UNCHANGED fnVars

\* whisper_model.transcribe raises: the run ends.
TranscribeFails ==
    /\ pc = "transcription"
    /\ calls' = Append(calls, Stage("transcription", wav_path, FALSE))
    /\ pc' = "failed"
    /\ UNCHANGED <<script, input_choice, wav_path, text, sentiment_label,
                   intent, entities, ai>>
    /\ UNCHANGED fnVars

\* sent = sentiment_model(text)[0]; sentiment_label = sent["label"]
\* The call is made whatever the transcript is.
Sentiment ==
    /\ pc = "sentiment"
    /\ \E label \in SentimentLabels : sentiment_label' = label
    /\ calls' = Append(calls, Stage("sentiment", text, TRUE))
    /\ pc' = "intent"
    /\ UNCHANGED <<script, input_choice, wav_path, text, intent, entities, ai>>
    /\ UNCHANGED fnVars

\* sentiment_model raises: the run ends.
SentimentFails ==
    /\ pc = "sentiment"
    /\ calls' = Append(calls, Stage("sentiment", text, FALSE))
    /\ pc' = "failed"
    /\ UNCHANGED <<script, input_choice, wav_path, text, sentiment_label,
                   intent, entities, ai>>
    /\ UNCHANGED fnVars

\* intent = detect_intent(text), each script calling its own detect_intent.
Intent ==
    /\ pc = "intent"
    /\ intent' = IF script = "app.py" THEN detect_intent(text)
                                      ELSE detect_intent_sa(text)
    /\ calls' = Append(calls, Stage("intent", text, TRUE))
    /\ pc' = "entities"
    /\ UNCHANGED <<script, input_choice, wav_path, text, sentiment_label,
                   entities, ai>>
    /\ UNCHANGED fnVars

\* doc = ner_model(text); entities = [...].  app.py goes on to the response,
\* the other script ends here.
Entities ==
    /\ pc = "entities"
    /\ \E ents \in DocEnts(text) : entities' = EntityList(ents)
    /\ calls' = Append(calls, Stage("entities", text, TRUE))
    /\ pc' = IF script = "app.py" THEN "response" ELSE "done"
    /\ UNCHANGED <<script, input_choice, wav_path, text, sentiment_label,
                   intent, ai>>
    /\ UNCHANGED fnVars

\* ner_model raises: the run ends.
EntitiesFails ==
    /\ pc = "entities"
    /\ calls' = Append(calls, Stage("entities", text, FALSE))
    /\ pc' = "failed"
    /\ UNCHANGED <<script, input_choice, wav_path, text, sentiment_label,
                   intent, entities, ai>>
    /\ UNCHANGED fnVars

\* ai = ai_sales_response(intent, sentiment_label)
Response ==
    /\ pc = "response"
    /\ ai' = ai_sales_response(intent, sentiment_label)
    /\ calls' = Append(calls, Stage("response", intent, TRUE))
    /\ pc' = "done"
    /\ UNCHANGED <<script, input_choice, wav_path, text, sentiment_label,
                   intent, entities>>
    /\ UNCHANGED fnVars

\* The next interaction: the script is executed again from its first line;
\* nothing of the last run is kept but the widget state.
Rerun ==
    /\ pc \in { "done", "failed" }
    /\ pc' = "start"
    /\ wav_path' = "None"
    /\ text' = None
    /\ sentiment_label' = None
    /\ intent' = None
    /\ entities' = None
    /\ ai' = None
    /\ calls' = <<>>
    /\ UNCHANGED <<script, input_choice>>
    /\ UNCHANGED fnVars

Next ==
    \/ NoAudio
    \/ AudioSource
    \/ AudioSourceFails
    \/ Transcribe
    \/ TranscribeFails
    \/ Sentiment
    \/ SentimentFails
    \/ Intent
    \/ Entities
    \/ EntitiesFails
    \/ Response
    \/ Rerun

Spec == Init /\ [][Next]_vars

---------------------------------------------------------------------------
(* Calls of the pure functions *)

CallDetectIntent ==
    /\ fn = "none"
    /\ \E t \in Texts :
          /\ arg_text' = t
          /\ ret_intent' = detect_intent(t)
    /\ fn' = "detect_intent"
    /\ UNCHANGED <<arg_intent, arg_sentiment, ret_ai>>
    /\ UNCHANGED runVars

CallDetectIntentSA ==
    /\ fn = "none"
    /\ \E t \in Texts :
          /\ arg_text' = t
          /\ ret_intent' = detect_intent_sa(t)
    /\ fn' = "detect_intent_sa"
    /\ UNCHANGED <<arg_intent, arg_sentiment, ret_ai>>
    /\ UNCHANGED runVars

CallAiSalesResponse ==
    /\ fn = "none"
    /\ \E i \in IntentArgs, s \in SentimentArgs :
          /\ arg_intent' = i
          /\ arg_sentiment' = s
          /\ ret_ai' = ai_sales_response(i, s)
    /\ fn' = "ai_sales_response"
    /\ UNCHANGED <<arg_text, ret_intent>>
    /\ UNCHANGED runVars

Return ==
    /\ fn # "none"
    /\ fn' = "none"
    /\ arg_text' = None
    /\ arg_intent' = None
    /\ arg_sentiment' = None
    /\ ret_intent' = None
    /\ ret_ai' = None
    /\ UNCHANGED runVars

NextFn ==
    \/ CallDetectIntent
    \/ CallDetectIntentSA
    \/ CallAiSalesResponse
    \/ Return

SpecFn == Init /\ [][NextFn]_vars

---------------------------------------------------------------------------
(* Properties *)

\* The six labels of the Intent data type.
Intents ==
    { "Purchase Interest", "Ask for Price", "Complaint", "Product Comparison",
      "Ask for Offers", "General" }

\* The ordered rule table of the intent classifier.
RuleOrder ==
    << [ keywords |-> PurchaseKeywords,   label |-> "Purchase Interest" ],
       [ keywords |-> PriceKeywords,      label |-> "Ask for Price" ],
       [ keywords |-> ComplaintKeywords,  label |-> "Complaint" ],
       [ keywords |-> ComparisonKeywords, label |-> "Product Comparison" ],
       [ keywords |-> OfferKeywords,      label |-> "Ask for Offers" ] >>

\* Rule r has a keyword that is a substring of the lower-cased text t.
Matches(r, t) == AnyIn(RuleOrder[r].keywords, lower(t))

AllKeywords ==
    UNION { { RuleOrder[r].keywords[k] : k \in 1..Len(RuleOrder[r].keywords) }
            : r \in 1..Len(RuleOrder) }

\* The upper-case form of a character.
UpperChar(c) ==
    IF \E u \in DOMAIN LowerOf : LowerOf[u] = c
    THEN CHOOSE u \in DOMAIN LowerOf : LowerOf[u] = c
    ELSE c

\* Texts that differ from t by case only: all lower case, all upper case,
\* and upper case at the odd positions.
CaseVariants(t) ==
    { lower(t),
      [ i \in 1..Len(t) |-> UpperChar(t[i]) ],
      [ i \in 1..Len(t) |-> IF i % 2 = 1 THEN UpperChar(t[i]) ELSE lower(t)[i] ] }

IntentSpecific == { "Purchase Interest", "Ask for Price", "Complaint" }

IntentTriple(i) ==
    CASE i = "Purchase Interest" -> PurchaseTriple
      [] i = "Ask for Price"     -> PriceTriple
      [] i = "Complaint"         -> ComplaintTriple

\* The order of the stages of a run of app.py.
StageOrder ==
    << "audio source", "transcription", "sentiment", "intent", "entities",
       "response" >>

\* C1: detect_intent of app.py is first-match-wins over the five ordered
\* rules: when two rules i < j both have a keyword in the lower-cased text
\* the result is never the label of rule j, and the result is the label of
\* the lowest-numbered rule that has a keyword in it.
C1_FirstMatchWins ==
    fn = "detect_intent" =>
        /\ \A i, j \in 1..Len(RuleOrder) :
              (i < j /\ Matches(i, arg_text) /\ Matches(j, arg_text))
                  => ret_intent # RuleOrder[j].label
        /\ \A i \in 1..Len(RuleOrder) :
              (Matches(i, arg_text) /\ \A h \in 1..(i - 1) : ~Matches(h, arg_text))
                  => ret_intent = RuleOrder[i].label

\* A text with both "buy" and "price" is classified Purchase Interest.
C1_Witness ==
    /\ fn = "detect_intent"
    /\ Contains(<<"b","u","y">>, lower(arg_text))
    /\ Contains(<<"p","r","i","c","e">>, lower(arg_text))
    /\ ret_intent = "Purchase Interest"

\* C2: detect_intent of app.py returns one of the six fixed labels for
\* every text.
C2_ReturnsALabel ==
    fn = "detect_intent" => ret_intent \in Intents

C2_Witness ==
    /\ fn = "detect_intent"
    /\ Contains(<<"b","a","t","t","e","r","y">>, arg_text)
    /\ ret_intent = "Product Comparison"

\* C3: detect_intent of "sentiment analysis.py" returns one of the six fixed
\* labels for every text, the label detect_intent of app.py returns for it.
C3_SameLabelAsApp ==
    fn = "detect_intent_sa" =>
        /\ ret_intent \in Intents
        /\ ret_intent = detect_intent(arg_text)

\* C4: detect_intent of app.py returns General exactly when none of the 19
\* keywords is a substring of the lower-cased text; the empty text gives
\* General.
C4_GeneralIffNoKeyword ==
    /\ Cardinality(AllKeywords) = 19
    /\ fn = "detect_intent" =>
          /\ ret_intent = "General"
                <=> \A k \in AllKeywords : ~Contains(k, lower(arg_text))
          /\ arg_text = <<>> => ret_intent = "General"

C4_Witness ==
    /\ fn = "detect_intent"
    /\ arg_text = <<>>
    /\ ret_intent = "General"

\* C5: for the intents Purchase Interest, Ask for Price and Complaint,
\* ai_sales_response returns the triple of the intent whatever the
\* sentiment is, never the negative-sentiment or the default triple.
C5_IntentBeforeSentiment ==
    (fn = "ai_sales_response" /\ arg_intent \in IntentSpecific) =>
        /\ ret_ai = IntentTriple(arg_intent)
        /\ ret_ai \notin { NegativeTriple, DefaultTriple }

C5_Witness ==
    /\ fn = "ai_sales_response"
    /\ arg_intent = "Complaint"
    /\ arg_sentiment = "NEGATIVE"
    /\ ret_ai = ComplaintTriple

\* C6: for every other intent, ai_sales_response returns the
\* negative-sentiment triple exactly when the sentiment is "NEGATIVE" and
\* the default triple otherwise, whichever of these intents was passed.
C6_SentimentDecidesOtherwise ==
    (fn = "ai_sales_response" /\ arg_intent \notin IntentSpecific) =>
        /\ arg_sentiment = "NEGATIVE" => ret_ai = NegativeTriple
        /\ arg_sentiment # "NEGATIVE" => ret_ai = DefaultTriple

C6_Witness ==
    /\ fn = "ai_sales_response"
    /\ arg_intent = "Compare Product"
    /\ arg_sentiment = "negative"
    /\ ret_ai = DefaultTriple

\* C7: over the six intents and every sentiment, ai_sales_response returns
\* a record with exactly the fields next_question, soft_handling and
\* recommendation, each a non-empty string.
C7_ThreeNonEmptyFields ==
    (fn = "ai_sales_response" /\ arg_intent \in Intents) =>
        /\ DOMAIN ret_ai = { "next_question", "soft_handling", "recommendation" }
        /\ \A f \in DOMAIN ret_ai : ret_ai[f] # ""

C7_Witness ==
    /\ fn = "ai_sales_response"
    /\ arg_intent = "General"
    /\ arg_sentiment = "POSITIVE"
    /\ DOMAIN ret_ai = { "next_question", "soft_handling", "recommendation" }

\* C8: the sentiment model and the NER model are never invoked on an empty
\* transcript.
C8_EmptyTranscriptGuarded ==
    \A k \in 1..Len(calls) :
        calls[k].stage \in { "sentiment", "entities" } => calls[k].arg # <<>>

\* C9: two texts that are equal after lower-casing receive the same label
\* from detect_intent of app.py.
C9_CaseInsensitive ==
    fn = "detect_intent" =>
        \A t2 \in CaseVariants(arg_text) :
            /\ lower(t2) = lower(arg_text)
            /\ detect_intent(t2) = ret_intent

C9_Witness ==
    /\ fn = "detect_intent"
    /\ arg_text # lower(arg_text)
    /\ \E t2 \in CaseVariants(arg_text) : t2 # arg_text
    /\ ret_intent = "Purchase Interest"

\* C10: in a run of app.py the stages execute in the fixed order, each at
\* most once, a stage only after every earlier stage of the run returned,
\* and no collaborator is called in a run that produced no audio path.
C10_StagesInOrder ==
    script = "app.py" =>
        /\ Len(calls) <= Len(StageOrder)
        /\ \A k \in 1..Len(calls) : calls[k].stage = StageOrder[k]
        /\ \A k \in 1..(Len(calls) - 1) : calls[k].ok
        /\ wav_path = "None" =>
              \A k \in 1..Len(calls) : calls[k].stage = "audio source"
        /\ pc = "failed" => Len(calls) > 0 /\ ~calls[Len(calls)].ok

C10_Witness ==
    /\ script = "app.py"
    /\ pc = "done"
    /\ Len(calls) = Len(StageOrder)
    /\ \A k \in 1..Len(calls) : calls[k].ok

=============================================================================
